---- MODULE Spec2Model ----
(***************************************************************************)
(* A model of src/src/app.py: the item CRUD handler in front of a single   *)
(* key-value table.  One action is one invocation of lambda_handler, from  *)
(* the event to the response, every store call included.  The table is     *)
(* the only state that outlives an invocation; the other variables record  *)
(* the last invocation so that properties can speak about it.  Further    *)
(* specifications call the operations directly (SpecOperations,            *)
(* SpecValidate), start from a table of more than one page                 *)
(* (SpecPageAndOne) and run two DELETE invocations side by side, one       *)
(* store call per step (SpecRace).                                         *)
(***************************************************************************)
EXTENDS Integers, Sequences, FiniteSets, TLC

\* The fields of the model's records and what each holds.  Every record below
\* lists its fields in this order, which is then also the order in which TLC
\* keeps them: a record is built in its normal form and is never reordered
\* while another worker reads it.
Fields ==
    [Items |-> "scan response: the records of the page",
     LastEvaluatedKey |-> "scan response: the key to resume from",
     at |-> "fault: the position of the store call that fails",
     body |-> "event: the request body; response: the body text",
     calls |-> "outcome: the store calls issued",
     crash |-> "response: the exception that escaped the handler",
     d |-> "the mapping of a dict",
     description |-> "item field",
     err |-> "fault, store call: the error raised",
     exc |-> "outcome: the exception raised",
     existing_item |-> "racer: what its existence read returned",
     extra |-> "item field",
     gen |-> "outcome: an identifier was generated",
     hasBody |-> "response: it has a body key",
     hasMethod |-> "event: it has an httpMethod key",
     httpMethod |-> "event: the method",
     id |-> "item field: the table key",
     isInt |-> "limit: it is an integer",
     items |-> "page: the records",
     key |-> "store call: the key addressed",
     last_evaluated_key |-> "page: the continuation cursor",
     limit |-> "store call: the limit of a scan",
     message |-> "error document: the message",
     msg |-> "outcome: the message of the exception",
     n |-> "limit: its value",
     name |-> "item field",
     none |-> "optional: it is None",
     op |-> "store call: the operation",
     other |-> "a path parameter that is no id",
     pathParameters |-> "event: the path parameters",
     pc |-> "racer: the store call it makes next",
     resp |-> "handler result: the response",
     ret |-> "outcome: the value returned",
     st |-> "outcome: the table afterwards",
     statusCode |-> "response: the status",
     t |-> "the type of a value",
     text |-> "body: its text",
     v |-> "text: the document it encodes",
     valid |-> "text: it is JSON"]

\* Number of invocations in a behaviour.
MaxRequests == 3

(***************************************************************************)
(* Values.  A scalar JSON value is a pair <<type, text>>; a decoded JSON   *)
(* document is [t, d] with d the mapping when t = "dict".  A Python dict   *)
(* with string keys is a function from field names to scalars.             *)
(***************************************************************************)
Str(s) == <<"str", s>>
Num(s) == <<"num", s>>
Null == <<"null", "">>

\* isinstance(v, str)
IsStr(v) == v[1] = "str"

\* bool(v) of a str
StrTruthy(v) == v[2] # ""

EmptyDict == << >>
Dict(d) == [d |-> d, t |-> "dict"]
JList == [d |-> EmptyDict, t |-> "list"]

\* The JSON documents that are no mapping: a list, a string, a number, null.
NonMappings == {JList} \cup {[d |-> EmptyDict, t |-> t] : t \in {"str", "num", "null"}}

\* isinstance(v, dict)
IsDict(v) == v.t = "dict"

\* json.dumps: the text of a document; BadText is a text that is no JSON.
Dumps(v) == [v |-> v, valid |-> TRUE]
BadText == [v |-> Dict(EmptyDict), valid |-> FALSE]

\* Optional[dict]: None, or a dict.
None == [d |-> EmptyDict, none |-> TRUE]
Some(d) == [d |-> d, none |-> FALSE]

\* bool(x) of an Optional[dict]: None and {} are falsy.
Truthy(x) == ~x.none /\ DOMAIN x.d # {}

(***************************************************************************)
(* Outcomes of an operation: the exception raised (exc = "" when it        *)
(* returned), its message, the value returned, the table afterwards, the   *)
(* store calls issued so far and whether an identifier was generated.      *)
(***************************************************************************)
Ok(ret, st, calls, gen) ==
    [calls |-> calls, exc |-> "", gen |-> gen, msg |-> "", ret |-> ret, st |-> st]
Raise(exc, msg, st, calls, gen) ==
    [calls |-> calls, exc |-> exc, gen |-> gen, msg |-> msg, ret |-> None, st |-> st]

(***************************************************************************)
(* The table.  A store call is logged as [op, key, limit, err]; the call   *)
(* whose position in the invocation equals fault.at fails with fault.err.  *)
(***************************************************************************)
NoFault == [at |-> 0, err |-> ""]
FaultMsg == "store failure"

Call(op, key, limit, err) == [err |-> err, key |-> key, limit |-> limit, op |-> op]

\* The error of the next store call, "" when it succeeds.
ErrAt(calls, fault) == IF fault.at = Len(calls) + 1 THEN fault.err ELSE ""

\* table.put_item(Item=item): the record replaces whatever its key held.
TablePutItem(st, item) == (item["id"] :> item) @@ st

\* table.get_item(Key={'id': key}).get('Item')
TableGetItem(st, key) == IF key \in DOMAIN st THEN Some(st[key]) ELSE None

\* table.delete_item(Key={'id': key}): removing an absent key changes nothing.
TableDeleteItem(st, key) == [k \in DOMAIN st \ {key} |-> st[k]]

\* The keys of the table in the order in which it scans them: a key new to
\* the table goes to the end.
VARIABLE layout

\* The order in which the table scans the records of st: the table's own,
\* which the program does not choose.  layout is that order.
ScanOrder(st) ==
    LET Held(k) == k \in DOMAIN st
    IN SelectSeq(layout, Held)

\* table.scan(Limit=limit, ExclusiveStartKey=start): the records after the
\* start key in scan order, at most limit of them, and the key to resume
\* from when records remain.
TableScan(st, limit, start) ==
    LET order == ScanOrder(st)
        from == IF Truthy(start) /\ \E i \in DOMAIN order : order[i] = start.d["id"]
                THEN CHOOSE i \in DOMAIN order : order[i] = start.d["id"]
                ELSE 0
        left == Len(order) - from
        n == IF left < limit THEN left ELSE limit
    IN [Items |-> [i \in 1..n |-> st[order[from + i]]],
        LastEvaluatedKey |-> IF n < left THEN Some([id |-> order[from + n]]) ELSE None]

(***************************************************************************)
(* The operations.                                                         *)
(***************************************************************************)
required_fields == {"name", "description"}

\* validate_item asking for a value, not only for the key.
validate_item_with_values(item) ==
    IF ~IsDict(item)
    THEN [exc |-> "AttributeError", msg |-> "Input must be a dictionary", ret |-> FALSE]
    ELSE [exc |-> "", msg |-> "",
          ret |-> \A field \in required_fields :
                     field \in DOMAIN item.d /\ IsStr(item.d[field]) /\ StrTruthy(item.d[field])]

validate_item(item) ==
    IF ~IsDict(item)
    THEN [exc |-> "AttributeError", msg |-> "Input must be a dictionary", ret |-> FALSE]
    ELSE [exc |-> "", msg |-> "",
          ret |-> \A field \in required_fields : field \in DOMAIN item.d]

\* {'id': item_id, **body}: a key of body that repeats an earlier key of the
\* display replaces its value, so body's own id wins over item_id.
BuildItem(item_id, body) ==
    [k \in {"id"} \cup DOMAIN body |-> IF k \in DOMAIN body THEN body[k] ELSE item_id]

\* create_item rejecting a body that is no dict with a ValueError.
create_item_value_error(body, st, calls, uuid, fault) ==
    IF ~IsDict(body)
    THEN Raise("ValueError", "Item data must be a dictionary", st, calls, FALSE)
    ELSE IF ~validate_item(body).ret
    THEN Raise("ValueError", "Invalid item data. Required fields: name, description",
               st, calls, FALSE)
    ELSE LET item_id == uuid
             item == BuildItem(item_id, body.d)
             err == ErrAt(calls, fault)
             calls2 == Append(calls, Call("put_item", item["id"], 0, err))
         IN IF err = "Boto3Error"
            THEN Raise("Exception", "Failed to create item: " \o FaultMsg, st, calls2, TRUE)
            ELSE IF err # ""
            THEN Raise(err, FaultMsg, st, calls2, TRUE)
            ELSE Ok(Some(item), TablePutItem(st, item), calls2, TRUE)

\* create_item writing the item before it validates the body.
create_item_write_first(body, st, calls, uuid, fault) ==
    IF ~IsDict(body)
    THEN Raise("AttributeError", "Item data must be a dictionary", st, calls, FALSE)
    ELSE LET item_id == uuid
             item == BuildItem(item_id, body.d)
             err == ErrAt(calls, fault)
             calls2 == Append(calls, Call("put_item", item["id"], 0, err))
         IN IF err = "Boto3Error"
            THEN Raise("Exception", "Failed to create item: " \o FaultMsg, st, calls2, TRUE)
            ELSE IF err # ""
            THEN Raise(err, FaultMsg, st, calls2, TRUE)
            ELSE IF ~validate_item(body).ret
            THEN Raise("ValueError", "Invalid item data. Required fields: name, description",
                       TablePutItem(st, item), calls2, TRUE)
            ELSE Ok(Some(item), TablePutItem(st, item), calls2, TRUE)

create_item(body, st, calls, uuid, fault) ==
    IF ~IsDict(body)
    THEN Raise("AttributeError", "Item data must be a dictionary", st, calls, FALSE)
    ELSE IF ~validate_item(body).ret
    THEN Raise("ValueError", "Invalid item data. Required fields: name, description",
               st, calls, FALSE)
    ELSE LET item_id == uuid
             item == BuildItem(item_id, body.d)
             err == ErrAt(calls, fault)
             calls2 == Append(calls, Call("put_item", item["id"], 0, err))
         IN IF err = "Boto3Error"
            THEN Raise("Exception", "Failed to create item: " \o FaultMsg, st, calls2, TRUE)
            ELSE IF err # ""
            THEN Raise(err, FaultMsg, st, calls2, TRUE)
            ELSE Ok(Some(item), TablePutItem(st, item), calls2, TRUE)

get_item(item_id, st, calls, fault) ==
    IF ~IsStr(item_id)
    THEN Raise("TypeError", "Item ID must be a string", st, calls, FALSE)
    ELSE LET err == ErrAt(calls, fault)
             calls2 == Append(calls, Call("get_item", item_id, 0, err))
         IN IF err # ""
            THEN Raise(err, FaultMsg, st, calls2, FALSE)
            ELSE Ok(TableGetItem(st, item_id), st, calls2, FALSE)

\* The default of list_items' limit parameter.
DefaultLimit == 100

\* list_items dropping the key to resume from.
list_items_without_cursor(limit, last_evaluated_key, st, calls, fault) ==
    IF ~limit.isInt
    THEN Raise("TypeError", "limit must be an integer", st, calls, FALSE)
    ELSE IF limit.n <= 0
    THEN Raise("ValueError", "limit must be greater than 0", st, calls, FALSE)
    ELSE LET err == ErrAt(calls, fault)
             start == IF Truthy(last_evaluated_key) THEN last_evaluated_key ELSE None
             calls2 == Append(calls, Call("scan", IF Truthy(start) THEN start.d["id"] ELSE Null,
                                          limit.n, err))
             response == TableScan(st, limit.n, start)
         IN IF err # ""
            THEN Raise(err, FaultMsg, st, calls2, FALSE)
            ELSE Ok(Some([items |-> response.Items, last_evaluated_key |-> None]),
                    st, calls2, FALSE)

\* list_items testing the range of limit before its type.
list_items_range_first(limit, last_evaluated_key, st, calls, fault) ==
    IF limit.n <= 0
    THEN Raise("ValueError", "limit must be greater than 0", st, calls, FALSE)
    ELSE IF ~limit.isInt
    THEN Raise("TypeError", "limit must be an integer", st, calls, FALSE)
    ELSE LET err == ErrAt(calls, fault)
             start == IF Truthy(last_evaluated_key) THEN last_evaluated_key ELSE None
             calls2 == Append(calls, Call("scan", IF Truthy(start) THEN start.d["id"] ELSE Null,
                                          limit.n, err))
             response == TableScan(st, limit.n, start)
         IN IF err # ""
            THEN Raise(err, FaultMsg, st, calls2, FALSE)
            ELSE Ok(Some([items |-> response.Items,
                          last_evaluated_key |-> response.LastEvaluatedKey]),
                    st, calls2, FALSE)

\* limit is [isInt, n]; last_evaluated_key is an Optional[dict].
list_items(limit, last_evaluated_key, st, calls, fault) ==
    IF ~limit.isInt
    THEN Raise("TypeError", "limit must be an integer", st, calls, FALSE)
    ELSE IF limit.n <= 0
    THEN Raise("ValueError", "limit must be greater than 0", st, calls, FALSE)
    ELSE LET err == ErrAt(calls, fault)
             start == IF Truthy(last_evaluated_key) THEN last_evaluated_key ELSE None
             calls2 == Append(calls, Call("scan", IF Truthy(start) THEN start.d["id"] ELSE Null,
                                          limit.n, err))
             response == TableScan(st, limit.n, start)
         IN IF err # ""
            THEN Raise(err, FaultMsg, st, calls2, FALSE)
            ELSE Ok(Some([items |-> response.Items,
                          last_evaluated_key |-> response.LastEvaluatedKey]),
                    st, calls2, FALSE)

\* update_item returning None, and writing nothing, when the table holds no
\* record under item_id.
update_item_existing_only(item_id, body, st, calls, fault) ==
    IF ~IsStr(item_id)
    THEN Raise("AttributeError", "Item ID must be a string", st, calls, FALSE)
    ELSE IF ~IsDict(body)
    THEN Raise("AttributeError", "Body must be a dictionary", st, calls, FALSE)
    ELSE IF ~validate_item(body).ret
    THEN Raise("ValueError", "Invalid item data", st, calls, FALSE)
    ELSE IF item_id \notin DOMAIN st
    THEN Ok(None, st, calls, FALSE)
    ELSE LET item == BuildItem(item_id, body.d)
             err == ErrAt(calls, fault)
             calls2 == Append(calls, Call("put_item", item["id"], 0, err))
         IN IF err # ""
            THEN Raise(err, FaultMsg, st, calls2, FALSE)
            ELSE Ok(Some(item), TablePutItem(st, item), calls2, FALSE)

update_item(item_id, body, st, calls, fault) ==
    IF ~IsStr(item_id)
    THEN Raise("AttributeError", "Item ID must be a string", st, calls, FALSE)
    ELSE IF ~IsDict(body)
    THEN Raise("AttributeError", "Body must be a dictionary", st, calls, FALSE)
    ELSE IF ~validate_item(body).ret
    THEN Raise("ValueError", "Invalid item data", st, calls, FALSE)
    ELSE LET item == BuildItem(item_id, body.d)
             err == ErrAt(calls, fault)
             calls2 == Append(calls, Call("put_item", item["id"], 0, err))
         IN IF err # ""
            THEN Raise(err, FaultMsg, st, calls2, FALSE)
            ELSE Ok(Some(item), TablePutItem(st, item), calls2, FALSE)

\* delete_item that checks existence and never calls table.delete_item.
delete_item_check_only(item_id, st, calls, fault) ==
    IF ~IsStr(item_id)
    THEN Raise("AttributeError", "Item ID must be a string", st, calls, FALSE)
    ELSE IF ~StrTruthy(item_id)
    THEN Raise("ValueError", "Item ID is required (non-empty).", st, calls, FALSE)
    ELSE LET existing_item == get_item(item_id, st, calls, fault)
         IN IF existing_item.exc # ""
            THEN existing_item
            ELSE IF Truthy(existing_item.ret)
            THEN Ok(None, st, existing_item.calls, FALSE)
            ELSE Raise("ValueError", "Item with id " \o item_id[2] \o " not found",
                       st, existing_item.calls, FALSE)

\* delete_item calling table.delete_item without looking at what it read.
delete_item_unconditional(item_id, st, calls, fault) ==
    IF ~IsStr(item_id)
    THEN Raise("AttributeError", "Item ID must be a string", st, calls, FALSE)
    ELSE IF ~StrTruthy(item_id)
    THEN Raise("ValueError", "Item ID is required (non-empty).", st, calls, FALSE)
    ELSE LET existing_item == get_item(item_id, st, calls, fault)
         IN IF existing_item.exc # ""
            THEN existing_item
            ELSE LET err == ErrAt(existing_item.calls, fault)
                     calls2 == Append(existing_item.calls,
                                      Call("delete_item", item_id, 0, err))
                 IN IF err # ""
                    THEN Raise(err, FaultMsg, st, calls2, FALSE)
                    ELSE Ok(None, TableDeleteItem(st, item_id), calls2, FALSE)

delete_item(item_id, st, calls, fault) ==
    IF ~IsStr(item_id)
    THEN Raise("AttributeError", "Item ID must be a string", st, calls, FALSE)
    ELSE IF ~StrTruthy(item_id)
    THEN Raise("ValueError", "Item ID is required (non-empty).", st, calls, FALSE)
    ELSE LET existing_item == get_item(item_id, st, calls, fault)
         IN IF existing_item.exc # ""
            THEN existing_item
            ELSE IF Truthy(existing_item.ret)
            THEN LET err == ErrAt(existing_item.calls, fault)
                     calls2 == Append(existing_item.calls,
                                      Call("delete_item", item_id, 0, err))
                 IN IF err # ""
                    THEN Raise(err, FaultMsg, st, calls2, FALSE)
                    ELSE Ok(None, TableDeleteItem(st, item_id), calls2, FALSE)
            ELSE Raise("ValueError", "Item with id " \o item_id[2] \o " not found",
                       st, existing_item.calls, FALSE)

(***************************************************************************)
(* The dispatcher.  An event is [hasMethod, httpMethod, pathParameters,    *)
(* body]: pathParameters is [t, d] with t one of "absent" (no such key),   *)
(* "null" (None) and "dict"; body is [t, text] with t one of "absent",     *)
(* "null" and "text".  A response is [statusCode, hasBody, body, crash];   *)
(* crash names the exception that left lambda_handler uncaught.            *)
(***************************************************************************)
NoText == [v |-> Dict(EmptyDict), valid |-> FALSE]

Response(status, doc) ==
    [body |-> Dumps(Dict(doc)), crash |-> "", hasBody |-> TRUE, statusCode |-> status]
ResponseNoBody(status) ==
    [body |-> NoText, crash |-> "", hasBody |-> FALSE, statusCode |-> status]
Uncaught(exc) ==
    [body |-> NoText, crash |-> exc, hasBody |-> FALSE, statusCode |-> 0]
Message(text) == [message |-> Str(text)]

\* What lambda_handler hands back: the response, the table, the call log and
\* the exception that ended the decode or the operation ("" when none did).
Done(resp, o) ==
    [calls |-> o.calls, exc |-> o.exc, gen |-> o.gen, msg |-> o.msg, resp |-> resp,
     st |-> o.st]

\* json.loads raising a plain ValueError for a text that is no JSON.
LoadsValueError(body, st) ==
    IF body.t = "absent" THEN Raise("KeyError", "'body'", st, << >>, FALSE)
    ELSE IF body.t = "null"
    THEN Raise("TypeError", "the JSON object must be str, bytes or bytearray, not NoneType",
               st, << >>, FALSE)
    ELSE IF ~body.text.valid THEN Raise("ValueError", "Expecting value", st, << >>, FALSE)
    ELSE [calls |-> << >>, exc |-> "", gen |-> FALSE, msg |-> "", ret |-> body.text.v,
          st |-> st]

\* json.loads(event['body'])
Loads(body, st) ==
    IF body.t = "absent" THEN Raise("KeyError", "'body'", st, << >>, FALSE)
    ELSE IF body.t = "null"
    THEN Raise("TypeError", "the JSON object must be str, bytes or bytearray, not NoneType",
               st, << >>, FALSE)
    ELSE IF ~body.text.valid THEN Raise("JSONDecodeError", "Expecting value", st, << >>, FALSE)
    ELSE [calls |-> << >>, exc |-> "", gen |-> FALSE, msg |-> "", ret |-> body.text.v,
          st |-> st]

\* bool(path_parameters)
PathTruthy(pp) == pp.t = "dict" /\ DOMAIN pp.d # {}

\* path_parameters and 'id' in path_parameters
HasPathId(pp) == PathTruthy(pp) /\ "id" \in DOMAIN pp.d

\* MapException without the ValueError clause.
MapExceptionNoValueError(o) ==
    IF o.exc = "JSONDecodeError" THEN Done(Response(400, Message("Invalid JSON")), o)
    ELSE Done(Response(500, Message("Internal server error")), o)

\* MapException answering a ValueError with a fixed message of its own.
MapExceptionFixedMessage(o) ==
    IF o.exc = "JSONDecodeError" THEN Done(Response(400, Message("Invalid JSON")), o)
    ELSE IF o.exc = "ValueError" THEN Done(Response(400, Message("Invalid input")), o)
    ELSE Done(Response(500, Message("Internal server error")), o)

\* MapException putting the exception's message into the 500 response.
MapExceptionLeaky(o) ==
    IF o.exc = "JSONDecodeError" THEN Done(Response(400, Message("Invalid JSON")), o)
    ELSE IF o.exc = "ValueError" THEN Done(Response(400, Message(o.msg)), o)
    ELSE Done(Response(500, Message(o.msg)), o)

\* The handlers of lambda_handler's except clauses, in their order.
MapException(o) ==
    IF o.exc = "JSONDecodeError" THEN Done(Response(400, Message("Invalid JSON")), o)
    ELSE IF o.exc = "ValueError" THEN Done(Response(400, Message(o.msg)), o)
    ELSE Done(Response(500, Message("Internal server error")), o)

HandlePost(event, st, uuid, fault) ==
    LET body == Loads(event.body, st)
    IN IF body.exc = "JSONDecodeError"
       THEN Done(Response(400, Message("Invalid JSON")), body)
       ELSE IF body.exc # "" THEN MapException(body)
       ELSE LET item == create_item(body.ret, st, << >>, uuid, fault)
            IN IF item.exc # "" THEN MapException(item)
               ELSE Done(Response(201, item.ret.d), item)

\* HandleGet with the test of the result inverted.
HandleGetInverted(path_parameters, st, fault) ==
    IF HasPathId(path_parameters)
    THEN LET item_id == path_parameters.d["id"]
             item == get_item(item_id, st, << >>, fault)
         IN IF item.exc # "" THEN MapException(item)
            ELSE IF Truthy(item.ret)
            THEN Done(Response(404, Message("Item not found")), item)
            ELSE Done(Response(200, item.ret.d), item)
    ELSE LET items == list_items([isInt |-> TRUE, n |-> DefaultLimit], None, st, << >>, fault)
         IN IF items.exc # "" THEN MapException(items)
            ELSE Done(Response(200, items.ret.d), items)

HandleGet(path_parameters, st, fault) ==
    IF HasPathId(path_parameters)
    THEN LET item_id == path_parameters.d["id"]
             item == get_item(item_id, st, << >>, fault)
         IN IF item.exc # "" THEN MapException(item)
            ELSE IF ~Truthy(item.ret)
            THEN Done(Response(404, Message("Item not found")), item)
            ELSE Done(Response(200, item.ret.d), item)
    ELSE LET items == list_items([isInt |-> TRUE, n |-> DefaultLimit], None, st, << >>, fault)
         IN IF items.exc # "" THEN MapException(items)
            ELSE Done(Response(200, items.ret.d), items)

\* HandlePut decoding the body before it looks for the path id.
HandlePutDecodeFirst(event, path_parameters, st, fault) ==
    LET body == Loads(event.body, st)
    IN IF body.exc = "JSONDecodeError"
       THEN Done(Response(400, Message("Invalid JSON")), body)
       ELSE IF body.exc # "" THEN MapException(body)
       ELSE IF ~HasPathId(path_parameters)
       THEN Done(Response(400, Message("Missing item ID")), Ok(None, st, << >>, FALSE))
       ELSE LET item == update_item(path_parameters.d["id"], body.ret, st, << >>, fault)
            IN IF item.exc # "" THEN MapException(item)
               ELSE IF ~Truthy(item.ret)
               THEN Done(Response(404, Message("Item not found")), item)
               ELSE Done(Response(200, item.ret.d), item)

HandlePut(event, path_parameters, st, fault) ==
    IF ~HasPathId(path_parameters)
    THEN Done(Response(400, Message("Missing item ID")), Ok(None, st, << >>, FALSE))
    ELSE LET body == Loads(event.body, st)
         IN IF body.exc = "JSONDecodeError"
            THEN Done(Response(400, Message("Invalid JSON")), body)
            ELSE IF body.exc # "" THEN MapException(body)
            ELSE LET item == update_item(path_parameters.d["id"], body.ret, st, << >>, fault)
                 IN IF item.exc # "" THEN MapException(item)
                    ELSE IF ~Truthy(item.ret)
                    THEN Done(Response(404, Message("Item not found")), item)
                    ELSE Done(Response(200, item.ret.d), item)

HandleDelete(path_parameters, st, fault) ==
    IF ~HasPathId(path_parameters)
    THEN Done(Response(400, Message("Missing item ID")), Ok(None, st, << >>, FALSE))
    ELSE LET r == delete_item(path_parameters.d["id"], st, << >>, fault)
         IN IF r.exc # "" THEN MapException(r)
            ELSE Done(ResponseNoBody(204), r)

\* lambda_handler reading the method with event.get('httpMethod'): an event
\* without one is answered like an unknown method.
lambda_handler_get_method(event, st, uuid, fault) ==
    LET http_method == IF event.hasMethod THEN event.httpMethod ELSE ""
        path_parameters == IF event.pathParameters.t = "absent"
                           THEN [d |-> EmptyDict, t |-> "dict"]
                           ELSE event.pathParameters
    IN IF http_method = "POST" THEN HandlePost(event, st, uuid, fault)
       ELSE IF http_method = "GET" THEN HandleGet(path_parameters, st, fault)
       ELSE IF http_method = "PUT" THEN HandlePut(event, path_parameters, st, fault)
       ELSE IF http_method = "DELETE" THEN HandleDelete(path_parameters, st, fault)
       ELSE Done(Response(405, Message("Method not allowed")),
                 Ok(None, st, << >>, FALSE))

lambda_handler(event, st, uuid, fault) ==
    IF ~event.hasMethod
    THEN Done(Uncaught("KeyError"), Ok(None, st, << >>, FALSE))
    ELSE LET http_method == event.httpMethod
             path_parameters == IF event.pathParameters.t = "absent"
                                THEN [d |-> EmptyDict, t |-> "dict"]
                                ELSE event.pathParameters
         IN IF http_method = "POST" THEN HandlePost(event, st, uuid, fault)
            ELSE IF http_method = "GET" THEN HandleGet(path_parameters, st, fault)
            ELSE IF http_method = "PUT" THEN HandlePut(event, path_parameters, st, fault)
            ELSE IF http_method = "DELETE" THEN HandleDelete(path_parameters, st, fault)
            ELSE Done(Response(405, Message("Method not allowed")),
                      Ok(None, st, << >>, FALSE))

(***************************************************************************)
(* The state machine.                                                      *)
(*   store     the table: a function from the keys it holds to records     *)
(*   nextUuid  how many identifiers uuid4 has produced, plus one           *)
(*   created   the ids of the items the successful creates returned        *)
(*   nreq      the number of invocations so far                            *)
(*   req, resp, pre, calls, uuid                                           *)
(*             the last invocation: its event, its response, the table     *)
(*             before it, the store calls it issued and the identifier it  *)
(*             generated (a sequence of length 0 or 1)                     *)
(*   raised    the exception that ended its decode or its operation, as    *)
(*             [exc, msg], exc = "" when none did                          *)
(*   candidate, validated                                                  *)
(*             a mapping handed to validate_item on its own, and what      *)
(*             validate_item made of it (a sequence of length 0 or 1)      *)
(*   call      the last direct call of an operation: [op, id, body, limit, *)
(*             last_evaluated_key], op = "" when none was made             *)
(*   racers    the DELETE invocations running side by side, each as        *)
(*             [id, pc, existing_item, resp]                               *)
(***************************************************************************)
VARIABLES store, nextUuid, created, nreq, req, resp, pre, calls, uuid, raised,
          candidate, validated, call, racers

vars == <<store, nextUuid, created, nreq, req, resp, pre, calls, uuid, raised,
          candidate, validated, layout, call, racers>>

\* str(uuid.uuid4()): the n-th identifier; the generator never repeats one.
Uuid4(n) == Str("u" \o ToString(n))

\* Request bodies: documents a client may send.
FullBody == [description |-> Str("d1"), name |-> Str("n1")]
ExtraBody == [description |-> Str(""), extra |-> Str("x"), name |-> Str("n2")]
OwnIdBody == [description |-> Str("d1"), id |-> Str("u1"), name |-> Str("n2")]
OddBody == [description |-> Num("1"), id |-> Num("7"), name |-> Null]
PartBody == [name |-> Str("n1")]

Absent == [t |-> "absent", text |-> NoText]
NullBody == [t |-> "null", text |-> NoText]
Text(x) == [t |-> "text", text |-> x]

Bodies ==
    {Text(Dumps(Dict(b))) : b \in {FullBody, ExtraBody, OwnIdBody, OddBody, PartBody}}
    \cup {Text(Dumps(JList)), Text(BadText), Absent, NullBody}

\* Path parameters: none, None, without an id, and with one.
PathId(v) == [d |-> [id |-> v], t |-> "dict"]
NoPath == [d |-> EmptyDict, t |-> "absent"]
PathIds == {Str("u1"), Str("p1"), Str(""), Num("7")}
Paths ==
    {NoPath, [d |-> EmptyDict, t |-> "null"], [d |-> EmptyDict, t |-> "dict"],
     [d |-> [other |-> Str("x")], t |-> "dict"]}
    \cup {PathId(v) : v \in PathIds}

Event(method, path, body) ==
    [body |-> body, hasMethod |-> TRUE, httpMethod |-> method, pathParameters |-> path]
NoMethodEvent(path, body) ==
    [body |-> body, hasMethod |-> FALSE, httpMethod |-> "", pathParameters |-> path]

NoEvent == NoMethodEvent(NoPath, Absent)

\* A direct call of an operation with its arguments; the ones the operation
\* does not take stay at NoCall's.
OpCall(op, item_id, body, limit, last_evaluated_key) ==
    [body |-> body, id |-> item_id, last_evaluated_key |-> last_evaluated_key,
     limit |-> limit, op |-> op]
NoCall == OpCall("", Null, Dict(EmptyDict), [isInt |-> TRUE, n |-> DefaultLimit], None)

Init ==
    /\ store = << >>
    /\ nextUuid = 1
    /\ created = << >>
    /\ nreq = 0
    /\ req = NoEvent
    /\ resp = Uncaught("")
    /\ pre = << >>
    /\ calls = << >>
    /\ uuid = << >>
    /\ raised = [exc |-> "", msg |-> ""]
    /\ candidate = EmptyDict
    /\ validated = << >>
    /\ layout = << >>
    /\ call = NoCall
    /\ racers = << >>

\* The effect of one invocation of lambda_handler on event, the store failing
\* as fault says.
Invoke(event, fault) ==
    LET r == lambda_handler(event, store, Uuid4(nextUuid), fault)
    IN /\ nreq' = nreq + 1
       /\ req' = event
       /\ pre' = store
       /\ store' = r.st
       /\ resp' = r.resp
       /\ calls' = r.calls
       /\ raised' = [exc |-> r.exc, msg |-> r.msg]
       /\ layout' = LET Kept(k) == k \in DOMAIN store'
                         new == DOMAIN store' \ DOMAIN store
                     IN IF new = {} THEN SelectSeq(layout, Kept)
                        ELSE Append(SelectSeq(layout, Kept), CHOOSE k \in new : TRUE)
       /\ UNCHANGED <<candidate, validated, call, racers>>
       /\ uuid' = IF r.gen THEN <<Uuid4(nextUuid)>> ELSE << >>
       /\ nextUuid' = IF r.gen THEN nextUuid + 1 ELSE nextUuid
       /\ created' = IF resp'.statusCode = 201
                     THEN Append(created, resp'.body.v.d["id"])
                     ELSE created

\* The inputs of the invocations: (path parameters, body, fault).  A fault is
\* drawn where the method can reach the store call it names.
ReadFaults == {NoFault, [at |-> 1, err |-> "ClientError"]}
WriteFaults == ReadFaults \cup {[at |-> 1, err |-> "Boto3Error"]}
IdPaths == {PathId(v) : v \in PathIds}

PostInputs ==
    ({NoPath} \X Bodies \X WriteFaults)
    \cup ({PathId(Str("p1"))} \X {Text(Dumps(Dict(FullBody))), Text(BadText)} \X {NoFault})
    \cup ({NoPath} \X {Text(Dumps(v)) : v \in NonMappings} \X {NoFault})

GetInputs ==
    (Paths \X {Absent} \X ReadFaults) \cup (Paths \X {Text(BadText)} \X {NoFault})

PutInputs ==
    (IdPaths \X Bodies \X ReadFaults)
    \cup ((Paths \ IdPaths) \X {Absent, Text(BadText), Text(Dumps(Dict(FullBody)))}
          \X {NoFault})
    \cup ({PathId(Str("p1"))} \X {Text(Dumps(v)) : v \in NonMappings} \X {NoFault})

DeleteInputs ==
    (Paths \X {Absent} \X (ReadFaults \cup {[at |-> 2, err |-> "ClientError"]}))
    \cup (Paths \X {Text(BadText)} \X {NoFault})

Post ==
    \E in \in PostInputs :
        nreq < MaxRequests /\ Invoke(Event("POST", in[1], in[2]), in[3])

Get ==
    \E in \in GetInputs :
        nreq < MaxRequests /\ Invoke(Event("GET", in[1], in[2]), in[3])

Put ==
    \E in \in PutInputs :
        nreq < MaxRequests /\ Invoke(Event("PUT", in[1], in[2]), in[3])

Delete ==
    \E in \in DeleteInputs :
        nreq < MaxRequests /\ Invoke(Event("DELETE", in[1], in[2]), in[3])

Other ==
    \E method \in {"PATCH", "HEAD"}, path \in {NoPath, PathId(Str("p1"))},
       body \in {Absent, Text(BadText)} :
        nreq < MaxRequests /\ Invoke(Event(method, path, body), NoFault)

NoMethod ==
    \E path \in {NoPath, PathId(Str("p1"))}, body \in {Absent, Text(Dumps(Dict(FullBody)))} :
        nreq < MaxRequests /\ Invoke(NoMethodEvent(path, body), NoFault)

Next == Post \/ Get \/ Put \/ Delete \/ Other \/ NoMethod

Spec == Init /\ [][Next]_vars

\* validate_item on its own: every mapping over these keys and values is a
\* candidate, and Validate applies validate_item to it.
CandidateKeys == {"name", "description", "id", "extra"}
CandidateValues == {Str(""), Str("n1"), Null, Num("7")}
Candidates == UNION {[keys -> CandidateValues] : keys \in SUBSET CandidateKeys}

InitValidate ==
    /\ store = << >>
    /\ nextUuid = 1
    /\ created = << >>
    /\ nreq = 0
    /\ req = NoEvent
    /\ resp = Uncaught("")
    /\ pre = << >>
    /\ calls = << >>
    /\ uuid = << >>
    /\ raised = [exc |-> "", msg |-> ""]
    /\ candidate \in Candidates
    /\ validated = << >>
    /\ layout = << >>
    /\ call = NoCall
    /\ racers = << >>

Validate ==
    /\ validated = << >>
    /\ validated' = <<validate_item(Dict(candidate))>>
    /\ UNCHANGED <<store, nextUuid, created, nreq, req, resp, pre, calls, uuid, raised,
                   candidate, layout, call, racers>>

SpecValidate == InitValidate /\ [][Validate]_vars

\* The service with a table of one record more than a page of list_items
\* holds: the table after DefaultLimit + 1 creates of FullBody.
PageAndOne == DefaultLimit + 1

InitPageAndOne ==
    /\ store = [k \in {Uuid4(i) : i \in 1..PageAndOne} |-> BuildItem(k, FullBody)]
    /\ nextUuid = PageAndOne + 1
    /\ created = [i \in 1..PageAndOne |-> Uuid4(i)]
    /\ nreq = 0
    /\ req = NoEvent
    /\ resp = Uncaught("")
    /\ pre = << >>
    /\ calls = << >>
    /\ uuid = << >>
    /\ raised = [exc |-> "", msg |-> ""]
    /\ candidate = EmptyDict
    /\ validated = << >>
    /\ layout = [i \in 1..PageAndOne |-> Uuid4(i)]
    /\ call = NoCall
    /\ racers = << >>

\* Its requests: the ones that read the table, shrink it and extend it.
NextPageAndOne == Get \/ Delete \/ Post

SpecPageAndOne == InitPageAndOne /\ [][NextPageAndOne]_vars

(***************************************************************************)
(* The operations called on their own, as the unit tests call them, with   *)
(* arguments the dispatcher never passes: a limit and a cursor for         *)
(* list_items, an id that is no string, a body that is no mapping.         *)
(***************************************************************************)
OpIds == {Str("u1"), Str("p1"), Str(""), Num("7"), Null}
OpBodies == {Dict(b) : b \in {FullBody, OwnIdBody, PartBody, EmptyDict}} \cup NonMappings

\* A limit is [isInt, n]: the integer n, or a float between n - 1 and n.
Limits ==
    {[isInt |-> TRUE, n |-> n] : n \in {-1, 0, 1, 2, DefaultLimit}}
    \cup {[isInt |-> FALSE, n |-> n] : n \in {-1, 0, 2}}
Cursors == {None, Some(EmptyDict), Some([id |-> Str("u1")])}

\* The faults of a delete: of its read, and of its delete call.
DeleteFaults == ReadFaults \cup {[at |-> 2, err |-> e] : e \in {"ClientError", "Boto3Error"}}

\* The effect of one direct call c of an operation whose outcome is o.
Operate(c, o) ==
    /\ nreq' = nreq + 1
    /\ call' = c
    /\ pre' = store
    /\ store' = o.st
    /\ calls' = o.calls
    /\ raised' = [exc |-> o.exc, msg |-> o.msg]
    /\ layout' = LET Kept(k) == k \in DOMAIN store'
                     new == DOMAIN store' \ DOMAIN store
                 IN IF new = {} THEN SelectSeq(layout, Kept)
                    ELSE Append(SelectSeq(layout, Kept), CHOOSE k \in new : TRUE)
    /\ uuid' = IF o.gen THEN <<Uuid4(nextUuid)>> ELSE << >>
    /\ nextUuid' = IF o.gen THEN nextUuid + 1 ELSE nextUuid
    /\ UNCHANGED <<created, req, resp, candidate, validated, racers>>

CallValidate ==
    \E item \in OpBodies :
        LET v == validate_item(item)
        IN nreq < MaxRequests /\
           Operate(OpCall("validate_item", Null, item, NoCall.limit, None),
                   IF v.exc # "" THEN Raise(v.exc, v.msg, store, << >>, FALSE)
                   ELSE Ok(None, store, << >>, FALSE))

CallCreate ==
    \E body \in OpBodies, fault \in WriteFaults :
        nreq < MaxRequests /\
        Operate(OpCall("create_item", Null, body, NoCall.limit, None),
                create_item(body, store, << >>, Uuid4(nextUuid), fault))

CallGet ==
    \E item_id \in OpIds, fault \in ReadFaults :
        nreq < MaxRequests /\
        Operate(OpCall("get_item", item_id, NoCall.body, NoCall.limit, None),
                get_item(item_id, store, << >>, fault))

CallList ==
    \E limit \in Limits, last_evaluated_key \in Cursors, fault \in WriteFaults :
        nreq < MaxRequests /\
        Operate(OpCall("list_items", Null, NoCall.body, limit, last_evaluated_key),
                list_items(limit, last_evaluated_key, store, << >>, fault))

CallUpdate ==
    \E item_id \in {Str("u1"), Str("p1"), Num("7")}, body \in OpBodies, fault \in WriteFaults :
        nreq < MaxRequests /\
        Operate(OpCall("update_item", item_id, body, NoCall.limit, None),
                update_item(item_id, body, store, << >>, fault))

CallDelete ==
    \E item_id \in OpIds, fault \in DeleteFaults :
        nreq < MaxRequests /\
        Operate(OpCall("delete_item", item_id, NoCall.body, NoCall.limit, None),
                delete_item(item_id, store, << >>, fault))

NextOperations ==
    CallValidate \/ CallCreate \/ CallGet \/ CallList \/ CallUpdate \/ CallDelete

SpecOperations == Init /\ [][NextOperations]_vars

(***************************************************************************)
(* Two DELETE invocations running side by side.  Each is its own process   *)
(* with its own locals; the table is all they share, and it serves one     *)
(* call at a time.  A step is one store call of one invocation, together   *)
(* with the local code that leads to it or follows it.                     *)
(***************************************************************************)
Racers == 1..2
RaceIds == {Str("u1"), Str("p1")}

\* The layout of a table of the race: its keys in this order.
RaceLayout(st) ==
    LET Held(k) == k \in DOMAIN st
    IN SelectSeq(<<Str("u1"), Str("p1")>>, Held)

\* A racer that has received its event and made no store call yet.
Racer(item_id) ==
    [existing_item |-> None, id |-> item_id, pc |-> "get_item", resp |-> Uncaught("")]

InitRace ==
    /\ store \in {[k \in ks |-> BuildItem(k, FullBody)] : ks \in SUBSET RaceIds}
    /\ nextUuid = 1
    /\ created = << >>
    /\ nreq = 0
    /\ req = NoEvent
    /\ resp = Uncaught("")
    /\ pre = store
    /\ calls = << >>
    /\ uuid = << >>
    /\ raised = [exc |-> "", msg |-> ""]
    /\ candidate = EmptyDict
    /\ validated = << >>
    /\ layout = RaceLayout(store)
    /\ call = NoCall
    /\ racers \in [Racers -> {Racer(item_id) : item_id \in RaceIds}]

\* lambda_handler's DELETE branch up to the return of delete_item's
\* get_item: the id is a non-empty string, so the first store call is the
\* existence read.
RaceGetItem(p) ==
    /\ racers[p].pc = "get_item"
    /\ LET existing_item == get_item(racers[p].id, store, << >>, NoFault)
       IN racers' = [racers EXCEPT ![p] =
                        [existing_item |-> existing_item.ret, id |-> racers[p].id,
                         pc |-> "delete_item", resp |-> racers[p].resp]]
    /\ UNCHANGED <<store, nextUuid, created, nreq, req, resp, pre, calls, uuid, raised,
                   candidate, validated, layout, call>>

\* The rest of the invocation with a delete that the table refuses, with a
\* ClientError, when the record is no longer there.
RaceDeleteItemConditional(p) ==
    /\ racers[p].pc = "delete_item"
    /\ LET item_id == racers[p].id
           o == IF ~Truthy(racers[p].existing_item)
                THEN Raise("ValueError", "Item with id " \o item_id[2] \o " not found",
                           store, << >>, FALSE)
                ELSE IF item_id \notin DOMAIN store
                THEN Raise("ClientError", FaultMsg, store, << >>, FALSE)
                ELSE Ok(None, TableDeleteItem(store, item_id), << >>, FALSE)
           r == IF o.exc # "" THEN MapException(o) ELSE Done(ResponseNoBody(204), o)
       IN /\ store' = r.st
          /\ racers' = [racers EXCEPT ![p] =
                           [existing_item |-> racers[p].existing_item, id |-> item_id,
                            pc |-> "done", resp |-> r.resp]]
    /\ layout' = RaceLayout(store')
    /\ UNCHANGED <<nextUuid, created, nreq, req, resp, pre, calls, uuid, raised,
                   candidate, validated, call>>

\* The rest of the invocation: delete_item from `if existing_item` on, with
\* its table.delete_item call, and lambda_handler's answer.
RaceDeleteItem(p) ==
    /\ racers[p].pc = "delete_item"
    /\ LET item_id == racers[p].id
           o == IF Truthy(racers[p].existing_item)
                THEN Ok(None, TableDeleteItem(store, item_id), << >>, FALSE)
                ELSE Raise("ValueError", "Item with id " \o item_id[2] \o " not found",
                           store, << >>, FALSE)
           r == IF o.exc # "" THEN MapException(o) ELSE Done(ResponseNoBody(204), o)
       IN /\ store' = r.st
          /\ racers' = [racers EXCEPT ![p] =
                           [existing_item |-> racers[p].existing_item, id |-> item_id,
                            pc |-> "done", resp |-> r.resp]]
    /\ layout' = RaceLayout(store')
    /\ UNCHANGED <<nextUuid, created, nreq, req, resp, pre, calls, uuid, raised,
                   candidate, validated, call>>

\* Any invocation that has a store call left makes it.
NextRace == \E p \in Racers : RaceGetItem(p) \/ RaceDeleteItem(p)

SpecRace == InitRace /\ [][NextRace]_vars

(***************************************************************************)
(* Vocabulary of the properties: the last invocation.                      *)
(***************************************************************************)
\* The last invocation carried this method.
LastIs(method) == nreq > 0 /\ req.hasMethod /\ req.httpMethod = method

\* Its path parameters carried an id, and the id.
ReqHasId == req.pathParameters.t = "dict" /\ "id" \in DOMAIN req.pathParameters.d
ReqId == req.pathParameters.d["id"]

\* Its body decoded to a mapping, and the mapping.
ReqIsDict == req.body.t = "text" /\ req.body.text.valid /\ IsDict(req.body.text.v)
ReqDoc == req.body.text.v.d
ReqValid == ReqIsDict /\ {"name", "description"} \subseteq DOMAIN ReqDoc

\* The document in the body of its response.
RespDoc == resp.body.v.d

\* Every store call it issued succeeded.
NoCallFailed == \A i \in DOMAIN calls : calls[i].err = ""

\* The table is as before, except possibly under the keys in keys.
SameExcept(keys) ==
    \A k \in (DOMAIN pre \cup DOMAIN store) \ keys :
        k \in DOMAIN pre /\ k \in DOMAIN store /\ store[k] = pre[k]

(***************************************************************************)
(* C1.  After any sequence of requests from an empty table, every record   *)
(* in the table has a non-empty string id, a name key and a description    *)
(* key.                                                                    *)
(***************************************************************************)
C1_RecordsWellFormed ==
    \A k \in DOMAIN store :
        /\ {"id", "name", "description"} \subseteq DOMAIN store[k]
        /\ IsStr(store[k]["id"])
        /\ StrTruthy(store[k]["id"])

(***************************************************************************)
(* C2.  A successful create whose body carries its own id key returns and  *)
(* persists an item whose id is the freshly generated identifier, not the  *)
(* body's value; every other field of the body is in the item unchanged.   *)
(***************************************************************************)
C2_CreateOverwritesBodyId ==
    (LastIs("POST") /\ resp.statusCode = 201 /\ "id" \in DOMAIN ReqDoc) =>
        /\ RespDoc["id"] = uuid[1]
        /\ uuid[1] \in DOMAIN store
        /\ store[uuid[1]] = RespDoc
        /\ \A k \in DOMAIN ReqDoc \ {"id"} : RespDoc[k] = ReqDoc[k]

(***************************************************************************)
(* C3.  The generator never repeating, each successful create stores its   *)
(* record under an id that was no key of the table and that no earlier     *)
(* create returned, so it leaves every record already stored as it was.    *)
(***************************************************************************)
C3_CreateUsesFreshKey ==
    (LastIs("POST") /\ resp.statusCode = 201) =>
        /\ calls[1].key \notin DOMAIN pre
        /\ \A i \in 1..(Len(created) - 1) : created[i] # created[Len(created)]
        /\ \A k \in DOMAIN pre : k \in DOMAIN store /\ store[k] = pre[k]

(***************************************************************************)
(* C4.  A successful update returns an item whose id is the path's id,     *)
(* writes once, to that key, creates, changes or removes no record under   *)
(* another key, and a get of the path's id then returns the returned item. *)
(***************************************************************************)
C4_UpdateWritesPathId ==
    (LastIs("PUT") /\ resp.statusCode = 200) =>
        /\ RespDoc["id"] = ReqId
        /\ Len(calls) = 1 /\ calls[1].op = "put_item" /\ calls[1].key = ReqId
        /\ SameExcept({ReqId})
        /\ TableGetItem(store, ReqId) = Some(RespDoc)

(***************************************************************************)
(* C5.  After a successful update the record under the path's id is        *)
(* exactly that id plus the fields of the body: no field of the previous   *)
(* record survives unless the body carries it.                             *)
(***************************************************************************)
C5_UpdateIsFullReplace ==
    (LastIs("PUT") /\ resp.statusCode = 200) =>
        /\ ReqId \in DOMAIN store
        /\ DOMAIN store[ReqId] = {"id"} \cup DOMAIN ReqDoc
        /\ store[ReqId]["id"] = ReqId
        /\ \A k \in DOMAIN ReqDoc \ {"id"} : store[ReqId][k] = ReqDoc[k]

(***************************************************************************)
(* C6.  A POST whose body is a mapping with name and description, the      *)
(* store write succeeding, gets 201 with the created record (a generated   *)
(* id plus every supplied field unchanged), and the table then holds that  *)
(* record under that id.                                                   *)
(***************************************************************************)
C6_PostCreatesRecord ==
    (LastIs("POST") /\ ReqValid /\ NoCallFailed) =>
        /\ resp.statusCode = 201
        /\ DOMAIN RespDoc = {"id"} \cup DOMAIN ReqDoc
        /\ RespDoc["id"] = uuid[1]
        /\ \A k \in DOMAIN ReqDoc \ {"id"} : RespDoc[k] = ReqDoc[k]
        /\ RespDoc["id"] \in DOMAIN store
        /\ store[RespDoc["id"]] = RespDoc

(***************************************************************************)
(* C7.  As stated: every GET whose path carries an id gets 200 with the    *)
(* record when the table holds one under that id and 404 "Item not found"  *)
(* when it holds none, after exactly one point-read.                       *)
(***************************************************************************)
C7_GetByIdAsStated ==
    (LastIs("GET") /\ ReqHasId) =>
        /\ Len(calls) = 1 /\ calls[1].op = "get_item" /\ calls[1].key = ReqId
        /\ IF ReqId \in DOMAIN pre
           THEN resp.statusCode = 200 /\ RespDoc = pre[ReqId]
           ELSE resp.statusCode = 404 /\ RespDoc = Message("Item not found")

(***************************************************************************)
(* C7, amended.  Every GET whose path carries a string id makes exactly    *)
(* one point-read, keyed by that id, and leaves the table alone; when the  *)
(* read succeeds the response is 200 with the record if the table holds    *)
(* one under that id and 404 "Item not found" if it holds none.  A GET     *)
(* whose id is no string gets 500 and reads nothing.                       *)
(***************************************************************************)
C7_GetById ==
    (LastIs("GET") /\ ReqHasId) =>
        /\ store = pre
        /\ IsStr(ReqId) =>
              /\ Len(calls) = 1 /\ calls[1].op = "get_item" /\ calls[1].key = ReqId
              /\ NoCallFailed =>
                    IF ReqId \in DOMAIN pre
                    THEN resp.statusCode = 200 /\ RespDoc = pre[ReqId]
                    ELSE resp.statusCode = 404 /\ RespDoc = Message("Item not found")
        /\ ~IsStr(ReqId) => resp.statusCode = 500 /\ calls = << >>

\* A GET found the record a previous request stored; another found none.
C7_Witness ==
    /\ LastIs("GET") /\ ReqHasId /\ IsStr(ReqId) /\ NoCallFailed
    /\ ReqId \in DOMAIN pre
    /\ resp.statusCode = 200
    /\ "extra" \in DOMAIN RespDoc

(***************************************************************************)
(* C8.  As stated: every DELETE whose path carries a non-empty string id   *)
(* of a stored record gets 204 without a body, and afterwards the record   *)
(* is gone and every other record is unchanged.                            *)
(***************************************************************************)
C8_DeleteAsStated ==
    (LastIs("DELETE") /\ ReqHasId /\ IsStr(ReqId) /\ StrTruthy(ReqId)
     /\ ReqId \in DOMAIN pre) =>
        /\ resp.statusCode = 204 /\ ~resp.hasBody
        /\ ReqId \notin DOMAIN store
        /\ SameExcept({ReqId})

(***************************************************************************)
(* C8, amended.  The same, when the existence read and the store delete    *)
(* both succeed; when either fails the response is 500 and the table is    *)
(* unchanged.                                                              *)
(***************************************************************************)
C8_Delete ==
    (LastIs("DELETE") /\ ReqHasId /\ IsStr(ReqId) /\ StrTruthy(ReqId)
     /\ ReqId \in DOMAIN pre) =>
        IF NoCallFailed
        THEN /\ resp.statusCode = 204 /\ ~resp.hasBody
             /\ ReqId \notin DOMAIN store
             /\ SameExcept({ReqId})
        ELSE resp.statusCode = 500 /\ store = pre

\* A DELETE removed one of two stored records.
C8_Witness ==
    /\ LastIs("DELETE") /\ resp.statusCode = 204
    /\ ReqId \in DOMAIN pre
    /\ ReqId \notin DOMAIN store
    /\ DOMAIN store # {}

(***************************************************************************)
(* C9.  As stated: a DELETE whose path carries an id under which the       *)
(* table holds no record gets 404.                                         *)
(***************************************************************************)
C9_DeleteMissingAsStated ==
    (LastIs("DELETE") /\ ReqHasId /\ ReqId \notin DOMAIN pre) => resp.statusCode = 404

(***************************************************************************)
(* C9, amended.  A DELETE whose path carries a string id under which the   *)
(* table holds no record gets 400, never 404, when its existence read      *)
(* does not fail: with the message "Item with id {id} not found" after     *)
(* one read for a non-empty id, and with "Item ID is required              *)
(* (non-empty)." and no read for the empty id.  The table is unchanged.    *)
(***************************************************************************)
C9_DeleteMissing ==
    (LastIs("DELETE") /\ ReqHasId /\ IsStr(ReqId) /\ ReqId \notin DOMAIN pre
     /\ NoCallFailed) =>
        /\ resp.statusCode = 400
        /\ store = pre
        /\ IF StrTruthy(ReqId)
           THEN /\ RespDoc = Message("Item with id " \o ReqId[2] \o " not found")
                /\ Len(calls) = 1 /\ calls[1].op = "get_item"
           ELSE /\ RespDoc = Message("Item ID is required (non-empty).")
                /\ calls = << >>

\* A DELETE of a non-empty id found no record while the table held another.
C9_Witness ==
    /\ LastIs("DELETE") /\ ReqHasId /\ IsStr(ReqId) /\ StrTruthy(ReqId)
    /\ ReqId \notin DOMAIN pre
    /\ DOMAIN pre # {}
    /\ NoCallFailed
    /\ resp.statusCode = 400

C11_InvalidInput ==
    /\ (nreq > 0 /\ raised.exc = "ValueError") =>
          resp.statusCode = 400 /\ RespDoc = Message(raised.msg)
    /\ (LastIs("POST") /\ ReqIsDict /\ ~ReqValid) =>
          /\ raised = [exc |-> "ValueError",
                       msg |-> "Invalid item data. Required fields: name, description"]
          /\ calls = << >> /\ store = pre
    /\ (LastIs("PUT") /\ ReqHasId /\ ReqIsDict /\ ~ReqValid) =>
          /\ IsStr(ReqId) = (raised.exc = "ValueError")
          /\ raised.exc = "ValueError" => raised.msg = "Invalid item data"
          /\ calls = << >> /\ store = pre
    /\ (LastIs("DELETE") /\ ReqHasId /\ ReqId = Str("")) =>
          /\ raised = [exc |-> "ValueError", msg |-> "Item ID is required (non-empty)."]
          /\ calls = << >> /\ store = pre

\* A PUT to a stored id with a body lacking description was answered 400 with
\* update's message, the stored record untouched.
C11_Witness ==
    /\ LastIs("PUT") /\ ReqHasId /\ IsStr(ReqId) /\ ReqIsDict /\ ~ReqValid
    /\ ReqId \in DOMAIN pre
    /\ resp.statusCode = 400
    /\ RespDoc = Message("Invalid item data")
    /\ store = pre

(***************************************************************************)
(* C12.  Every POST, and every PUT whose path carries an id, whose body    *)
(* text is no valid JSON gets 400 "Invalid JSON": the decode failure ends  *)
(* the invocation, so no operation runs (no identifier is generated), no   *)
(* store call is made, the table is unchanged and the answer is never 500. *)
(***************************************************************************)
C12_InvalidJson ==
    ((LastIs("POST") \/ (LastIs("PUT") /\ ReqHasId))
     /\ req.body.t = "text" /\ ~req.body.text.valid) =>
        /\ resp.statusCode = 400
        /\ RespDoc = Message("Invalid JSON")
        /\ raised.exc = "JSONDecodeError"
        /\ uuid = << >>
        /\ calls = << >>
        /\ store = pre

\* A PUT to a stored id with a body that is no JSON was answered 400.
C12_Witness ==
    /\ LastIs("PUT") /\ ReqHasId /\ ReqId \in DOMAIN pre
    /\ req.body.t = "text" /\ ~req.body.text.valid
    /\ resp.statusCode = 400
    /\ store = pre

(***************************************************************************)
(* C13.  As stated: every POST whose body is valid JSON but decodes to no  *)
(* mapping, so that create fails with TypeMismatch, gets 400 carrying the  *)
(* error's message.                                                        *)
(***************************************************************************)
C13_NonMappingAsStated ==
    (LastIs("POST") /\ req.body.t = "text" /\ req.body.text.valid /\ ~ReqIsDict) =>
        resp.statusCode = 400 /\ RespDoc = Message(raised.msg)

(***************************************************************************)
(* C13, amended.  Every such POST gets 500 "Internal server error": create *)
(* fails with TypeMismatch (an AttributeError, "Item data must be a        *)
(* dictionary") before generating an identifier or calling the store, and  *)
(* the dispatcher does not carry the error's message.                      *)
(***************************************************************************)
C13_NonMapping ==
    (LastIs("POST") /\ req.body.t = "text" /\ req.body.text.valid /\ ~ReqIsDict) =>
        /\ raised = [exc |-> "AttributeError", msg |-> "Item data must be a dictionary"]
        /\ resp.statusCode = 500
        /\ RespDoc = Message("Internal server error")
        /\ uuid = << >>
        /\ calls = << >>
        /\ store = pre

\* A POST of a JSON string was answered 500 while the table held a record.
C13_Witness ==
    /\ LastIs("POST") /\ req.body.t = "text" /\ req.body.text.valid
    /\ req.body.text.v.t = "str"
    /\ DOMAIN pre # {}
    /\ resp.statusCode = 500

(***************************************************************************)
(* C14.  Every request with a method whose decode, operation or store      *)
(* call fails with anything but a JSON decode failure or InvalidInput gets *)
(* 500 with the body exactly {"message": "Internal server error"},         *)
(* whatever the cause: a store call that fails (read, write, scan or       *)
(* delete; create's wrapped write failure included), a path id that is no  *)
(* string, a body that is no mapping, a body that is absent or null.       *)
(***************************************************************************)
C14_InternalError ==
    LET InternalError == resp = Response(500, Message("Internal server error"))
    IN /\ (nreq > 0 /\ req.hasMethod
           /\ raised.exc \notin {"", "JSONDecodeError", "ValueError"}) => InternalError
       /\ (nreq > 0 /\ ~NoCallFailed) =>
             raised.exc \in {"ClientError", "Exception"} /\ InternalError
       /\ ((LastIs("GET") \/ LastIs("DELETE")) /\ ReqHasId /\ ~IsStr(ReqId)) =>
             raised.exc \in {"TypeError", "AttributeError"} /\ InternalError
       /\ (LastIs("PUT") /\ ReqHasId /\ req.body.t = "text" /\ req.body.text.valid
           /\ (~IsStr(ReqId) \/ ~ReqIsDict)) =>
             raised.exc = "AttributeError" /\ InternalError
       /\ ((LastIs("POST") \/ (LastIs("PUT") /\ ReqHasId)) /\ req.body.t # "text") =>
             raised.exc \in {"KeyError", "TypeError"} /\ InternalError

\* A DELETE whose existence read succeeded and whose store delete failed was
\* answered 500.
C14_Witness ==
    /\ LastIs("DELETE")
    /\ Len(calls) = 2 /\ calls[2].op = "delete_item" /\ calls[2].err # ""
    /\ resp.statusCode = 500

(***************************************************************************)
(* C15.  Requests rejected at dispatch touch nothing.  A PUT or DELETE     *)
(* whose path parameters are absent, null or without an id gets 400        *)
(* "Missing item ID", and a request whose method is none of POST, GET,     *)
(* PUT, DELETE gets 405 "Method not allowed"; in both cases the body is    *)
(* never decoded (a body that is absent or no JSON changes nothing), no    *)
(* operation runs and no store call is made.                               *)
(***************************************************************************)
C15_DispatchRejections ==
    LET Untouched == raised.exc = "" /\ uuid = << >> /\ calls = << >> /\ store = pre
    IN /\ ((LastIs("PUT") \/ LastIs("DELETE")) /\ ~ReqHasId) =>
             resp = Response(400, Message("Missing item ID")) /\ Untouched
       /\ (nreq > 0 /\ req.hasMethod
           /\ req.httpMethod \notin {"POST", "GET", "PUT", "DELETE"}) =>
             resp = Response(405, Message("Method not allowed")) /\ Untouched

\* A PUT without a path id and with a body that is no JSON was answered
\* "Missing item ID" while the table held a record.
C15_Witness ==
    /\ LastIs("PUT") /\ ~ReqHasId
    /\ req.body.t = "text" /\ ~req.body.text.valid
    /\ DOMAIN pre # {}
    /\ resp.statusCode = 400
    /\ RespDoc = Message("Missing item ID")

C17_Validate ==
    validated # << >> =>
        /\ validated[1].exc = ""
        /\ validated[1].ret = ({"name", "description"} \subseteq DOMAIN candidate)

\* validate_item accepted a mapping whose name is null and whose description
\* is a number, with another key beside them.
C17_Witness ==
    /\ validated # << >>
    /\ validated[1].ret
    /\ DOMAIN candidate = {"name", "description", "extra"}
    /\ candidate["name"] = Null
    /\ candidate["description"] = Num("7")

(***************************************************************************)
(* C18.  A request without a method field is not turned into a response:   *)
(* the invocation ends with the KeyError escaping lambda_handler (no       *)
(* status, no body), whatever its path parameters and body, and it makes   *)
(* no store call and leaves the table as it was.                           *)
(***************************************************************************)
C18_NoMethod ==
    (nreq > 0 /\ ~req.hasMethod) =>
        /\ resp = Uncaught("KeyError")
        /\ resp.statusCode \notin 400..599
        /\ uuid = << >>
        /\ calls = << >>
        /\ store = pre

\* A request without a method, with a path id and a valid body, ended in the
\* uncaught failure while the table held a record.
C18_Witness ==
    /\ nreq > 0 /\ ~req.hasMethod
    /\ ReqHasId /\ ReqValid
    /\ DOMAIN pre # {}
    /\ resp.crash = "KeyError"

(***************************************************************************)
(* C19.  update performs no existence check: update(id, body) with a       *)
(* string id and a valid body, its store write succeeding, succeeds        *)
(* whether or not a record exists under id, makes no store read and        *)
(* exactly one store write, and when no record existed beforehand the      *)
(* table afterwards holds the new record under id.                         *)
(***************************************************************************)
C19_UpdateCreatesUnderId ==
    (LastIs("PUT") /\ ReqHasId /\ IsStr(ReqId) /\ ReqValid /\ NoCallFailed) =>
        /\ raised.exc = "" /\ resp.statusCode = 200
        /\ Len(calls) = 1 /\ calls[1].op = "put_item"
        /\ ReqId \notin DOMAIN pre => (ReqId \in DOMAIN store /\ store[ReqId] = RespDoc)

(***************************************************************************)
(* C20.  As stated: for every non-empty string id, if the existence read   *)
(* finds no record delete(id) fails with NotFound carrying "Item with id   *)
(* {id} not found" and issues no store delete call; if the read finds a    *)
(* record delete(id) succeeds and issues exactly one store delete call,    *)
(* keyed by that id.                                                       *)
(***************************************************************************)
C20_DeleteAfterReadAsStated ==
    (LastIs("DELETE") /\ ReqHasId /\ IsStr(ReqId) /\ StrTruthy(ReqId)
     /\ Len(calls) >= 1 /\ calls[1].err = "") =>
        IF ReqId \in DOMAIN pre
        THEN /\ raised.exc = ""
             /\ Len(calls) = 2 /\ calls[2].op = "delete_item" /\ calls[2].key = ReqId
        ELSE /\ raised = [exc |-> "ValueError",
                          msg |-> "Item with id " \o ReqId[2] \o " not found"]
             /\ Len(calls) = 1

(***************************************************************************)
(* C20, amended.  For every non-empty string id delete(id) first makes     *)
(* one existence read keyed by id.  If the read finds no record, delete    *)
(* fails with NotFound (a ValueError) carrying "Item with id {id} not      *)
(* found" and issues no store delete call.  If it finds a record, delete   *)
(* issues exactly one store delete call, keyed by that id, and succeeds    *)
(* when that call does; when that call fails, its failure is delete's.     *)
(***************************************************************************)
C20_DeleteAfterRead ==
    (LastIs("DELETE") /\ ReqHasId /\ IsStr(ReqId) /\ StrTruthy(ReqId)) =>
        /\ Len(calls) >= 1 /\ calls[1].op = "get_item" /\ calls[1].key = ReqId
        /\ calls[1].err = "" =>
              IF ReqId \in DOMAIN pre
              THEN /\ Len(calls) = 2
                   /\ calls[2].op = "delete_item" /\ calls[2].key = ReqId
                   /\ raised = [exc |-> calls[2].err,
                                msg |-> IF calls[2].err = "" THEN "" ELSE FaultMsg]
                   /\ calls[2].err = "" => store = TableDeleteItem(pre, ReqId)
                   /\ calls[2].err # "" => store = pre
              ELSE /\ raised = [exc |-> "ValueError",
                                msg |-> "Item with id " \o ReqId[2] \o " not found"]
                   /\ Len(calls) = 1
                   /\ store = pre

\* A delete whose read found the record issued its one store delete call and
\* succeeded, another record staying in the table.
C20_Witness ==
    /\ LastIs("DELETE") /\ ReqHasId /\ IsStr(ReqId) /\ StrTruthy(ReqId)
    /\ ReqId \in DOMAIN pre
    /\ Len(calls) = 2 /\ calls[2].op = "delete_item" /\ calls[2].err = ""
    /\ raised.exc = ""
    /\ DOMAIN store # {}
(***************************************************************************)
(* Vocabulary of the properties: the last direct call of an operation.     *)
(***************************************************************************)
\* The last step called this operation directly.
Called(op) == call.op = op

\* The error classes of the operations: a value of the wrong shape, and a
\* well-shaped value that is not acceptable.
TypeMismatch == raised.exc \in {"TypeError", "AttributeError"}
InvalidInput == raised.exc = "ValueError"

\* The call reached the store with no call and left the table as it was.
NoStoreAccess == calls = << >> /\ store = pre

(***************************************************************************)
(* C21.  An operation called with an argument that violates its            *)
(* precondition fails with the error class of that violation without any   *)
(* store call: a non-mapping handed to validate, create or update and a    *)
(* non-string id handed to get, update or delete are type mismatches; so   *)
(* is a non-integer limit handed to list, whatever its range; an integer   *)
(* limit <= 0, a mapping without name or description handed to create or   *)
(* update, and the empty id handed to delete are invalid input.            *)
(***************************************************************************)
C21_FailFast ==
    /\ ((Called("validate_item") \/ Called("create_item") \/ Called("update_item"))
        /\ ~IsDict(call.body)) => (TypeMismatch /\ NoStoreAccess)
    /\ ((Called("get_item") \/ Called("update_item") \/ Called("delete_item"))
        /\ ~IsStr(call.id)) => (TypeMismatch /\ NoStoreAccess)
    /\ (Called("list_items") /\ ~call.limit.isInt) => (TypeMismatch /\ NoStoreAccess)
    /\ (Called("list_items") /\ call.limit.isInt /\ call.limit.n <= 0) =>
           (InvalidInput /\ NoStoreAccess)
    /\ ((Called("create_item") \/ (Called("update_item") /\ IsStr(call.id)))
        /\ IsDict(call.body) /\ ~(required_fields \subseteq DOMAIN call.body.d)) =>
           (InvalidInput /\ NoStoreAccess)
    /\ (Called("delete_item") /\ call.id = Str("")) => (InvalidInput /\ NoStoreAccess)

\* list was handed a limit that is no integer and is below the range, over a
\* table that holds a record, and failed with a type mismatch, no store call
\* made.
C21_Witness ==
    /\ Called("list_items")
    /\ ~call.limit.isInt
    /\ call.limit.n <= 0
    /\ DOMAIN store # {}
    /\ raised.exc = "TypeError"
    /\ calls = << >>

(***************************************************************************)
(* C22.  A request is all-or-nothing.  After a request that was answered   *)
(* with a status outside 2xx, or that ended in an uncaught exception, the  *)
(* table is what it was before the request.  A GET never changes the       *)
(* table.  A POST, PUT or DELETE answered with a 2xx status made exactly   *)
(* one store write or delete that was applied (a put_item for POST and     *)
(* PUT, a delete_item for DELETE), and the table differs from the one      *)
(* before at most under that call's key.                                   *)
(***************************************************************************)
C22_AllOrNothing ==
    nreq > 0 =>
        LET success == resp.statusCode \in 200..299
            applied == {i \in DOMAIN calls :
                           calls[i].op \in {"put_item", "delete_item"} /\ calls[i].err = ""}
        IN /\ ~success => store = pre
           /\ LastIs("GET") => store = pre
           /\ (success /\ (LastIs("POST") \/ LastIs("PUT") \/ LastIs("DELETE"))) =>
                  /\ Cardinality(applied) = 1
                  /\ \A i \in applied :
                         /\ calls[i].op = IF LastIs("DELETE") THEN "delete_item" ELSE "put_item"
                         /\ SameExcept({calls[i].key})
                         /\ (calls[i].key \in DOMAIN store) = ~LastIs("DELETE")

\* A DELETE read a record of a table of two, its delete call failed, it was
\* answered 500 and the table still holds both records.
C22_Witness ==
    /\ LastIs("DELETE")
    /\ resp.statusCode = 500
    /\ Len(calls) = 2
    /\ calls[2].op = "delete_item"
    /\ Cardinality(DOMAIN pre) = 2
    /\ store = pre

(***************************************************************************)
(* C23.  Two DELETE invocations of the same id that the table held at the  *)
(* start, interleaved store call by store call, no one else writing and    *)
(* the store's delete removing an absent key without an error: whatever    *)
(* the interleaving, once both have answered the record is gone, at least  *)
(* one of them answered 204 and neither answered 500 (the other answer is  *)
(* a 400).  That both read the record and both answer 204 is possible: it  *)
(* is the state C23_Witness describes.                                     *)
(***************************************************************************)
C23_ConcurrentDeletes ==
    \A p, q \in Racers :
        (/\ p # q
         /\ racers[p].id = racers[q].id
         /\ racers[p].id \in DOMAIN pre
         /\ racers[p].pc = "done"
         /\ racers[q].pc = "done") =>
            /\ racers[p].id \notin DOMAIN store
            /\ racers[p].resp.statusCode = 204 \/ racers[q].resp.statusCode = 204
            /\ racers[p].resp.statusCode \in {204, 400}
            /\ racers[p].resp.crash = ""
            /\ \A k \in DOMAIN pre \ {racers[p].id} : k \in DOMAIN store /\ store[k] = pre[k]

\* Both invocations read the record before either deleted it, and both
\* answered 204.
C23_Witness ==
    /\ racers # << >>
    /\ racers[1].id = racers[2].id
    /\ racers[1].id \in DOMAIN pre
    /\ \A p \in Racers :
           /\ racers[p].pc = "done"
           /\ Truthy(racers[p].existing_item)
           /\ racers[p].resp.statusCode = 204
    /\ racers[1].id \notin DOMAIN store

(***************************************************************************)
(* C24.  Every store failure during create's write makes create fail with  *)
(* the generic Exception whose message is "Failed to create item: "        *)
(* followed by the cause, after exactly one write attempt and with the     *)
(* table unchanged; a store failure during update, list or delete leaves   *)
(* the operation with the store's own exception and message.               *)
(***************************************************************************)
C24_StoreFailures ==
    (call.op # "" /\ calls # << >> /\ calls[Len(calls)].err # "") =>
        /\ store = pre
        /\ Called("create_item") =>
               /\ Len(calls) = 1
               /\ calls[1].op = "put_item"
               /\ raised = [exc |-> "Exception", msg |-> "Failed to create item: " \o FaultMsg]
        /\ ~Called("create_item") =>
               raised = [exc |-> calls[Len(calls)].err, msg |-> FaultMsg]

====
